---- MODULE Spec2Model ----
(***************************************************************************)
(* Lemons Leads backend: the waitlist intake and admin reporting API.      *)
(* The enhanced server (src/unnamed/part_002) is modelled as the state     *)
(* machine Spec: the sqlite table `waitlist`, the requests in flight at    *)
(* their await points, and the last response sent.                         *)
(* Strings are sequences of one-character strings; a JavaScript value is a *)
(* record [t, s] with t the type tag and s the characters of a string.     *)
(***************************************************************************)
EXTENDS Integers, Sequences, FiniteSets, TLC

(* ------------------------------ bounds --------------------------------- *)
\* number of requests that can be in flight at once
MaxInflight == 2
\* number of POST /api/waitlist requests of one run that pass validation
MaxReqs == 2
\* number of those requests whose body is outside CommonBodies
MaxUncommon == 1
\* the values of CURRENT_TIMESTAMP run from 0 to MaxClock
MaxClock == 0

\* requests of one address in one window of the rate limiter
MaxArrivals == 22
\* requests of the other address in one window
MaxOtherArrivals == 1

\* the tables the reports are checked on: company names in use, records of
\* one company, records of one plan
MaxCompanies == 6
MaxPerCompany == 2
MaxPerPlan == 3

(* ------------------------- program constants --------------------------- *)
MaxNameLen == 100
MaxEmailLen == 100
MaxPhoneLen == 20
MaxCompanyLen == 100
MaxPlanLen == 50
MaxChallengeLen == 500
\* max of rateLimit(..): src/server.js, and src/unnamed/part_002 in
\* production and otherwise
LimitBasic == 5
LimitProduction == 20
LimitDevelopment == 1000

(* --------------------------- JavaScript values ------------------------- *)
Str(s) == [t |-> "str", s |-> s]
Undefined == [t |-> "undefined", s |-> <<>>]
Null == [t |-> "null", s |-> <<>>]
\* a non-zero number (its decimal digits in s)
Num(s) == [t |-> "num", s |-> s]

Rep(c, n) == [i \in 1..n |-> c]

\* String(n) of a natural number: its decimal digits
Digits == <<"0", "1", "2", "3", "4", "5", "6", "7", "8", "9">>
RECURSIVE NumberToString(_)
NumberToString(n) ==
  IF n < 10 THEN <<Digits[n + 1]>>
  ELSE NumberToString(n \div 10) \o <<Digits[(n % 10) + 1]>>

\* the characters String.prototype.trim removes and \s matches
Whitespace == {" ", "\n", "\t"}

\* a presence check that tests for undefined only
TruthyIfDefined(v) == v.t # "undefined"

\* JavaScript truthiness: !v is the negation
Truthy(v) ==
  \/ v.t = "str" /\ Len(v.s) > 0
  \/ v.t = "num"

\* a length check that is off by one
LengthExceedsByTwo(v, n) == v.t = "str" /\ Len(v.s) > n + 1

\* v.length > n: the length of a number is undefined and undefined > n is false
LengthExceeds(v, n) == v.t = "str" /\ Len(v.s) > n

\* /^[^\s@]+@[^\s@]+\.[^\s@]+$/ on the characters s
RegexTest(s) ==
  \E i \in 1..Len(s) : \E j \in 1..Len(s) :
    /\ s[i] = "@"
    /\ s[j] = "."
    /\ 1 < i /\ i + 1 < j /\ j < Len(s)
    /\ \A k \in 1..Len(s) :
         (k # i /\ k # j) => (s[k] \notin Whitespace /\ s[k] # "@")

\* validateEmail(email): RegExp.test converts its argument to a string
validateEmail(email) ==
  CASE email.t = "str" -> RegexTest(email.s)
    [] email.t = "num" -> RegexTest(email.s)
    [] OTHER -> FALSE

\* String.prototype.trim
Trim(s) ==
  LET keep == {i \in 1..Len(s) : s[i] \notin Whitespace}
  IN IF keep = {} THEN <<>>
     ELSE LET lo == CHOOSE i \in keep : \A k \in keep : i <= k
              hi == CHOOSE i \in keep : \A k \in keep : k <= i
          IN SubSeq(s, lo, hi)

NotAngle(c) == c \notin {"<", ">"}

\* a replace without the g flag: only the first match is removed
StripFirstAngle(s) ==
  LET hits == {i \in 1..Len(s) : ~NotAngle(s[i])}
  IN IF hits = {} THEN s
     ELSE LET f == CHOOSE i \in hits : \A k \in hits : i <= k
          IN SubSeq(s, 1, f - 1) \o SubSeq(s, f + 1, Len(s))

\* .replace(/[<>]/g, '')
StripAngles(s) == SelectSeq(s, NotAngle)

\* sanitizeInput(input) for a string input
sanitizeInput(s) == StripAngles(Trim(s))

\* input.trim is not a function for anything but a string
SanitizeThrows(v) == v.t # "str"

(* ------------------------------ inputs --------------------------------- *)
\* req.body of a well-formed submission
BaseBody ==
  [name |-> Str(<<"A", "l">>),
   email |-> Str(<<"a", "@", "b", ".", "c">>),
   phone |-> Undefined,
   company |-> Str(<<"C", "o">>),
   plan |-> Undefined,
   biggest_challenge |-> Str(<<"x">>)]

NameInputs ==
  {Undefined, Str(<<>>), Str(<<" ">>), Str(<<"<", ">">>),
   Str(<<"<", "b", ">", "A", "l", "<", "/", "b", ">">>),
   Str(<<" ", "<", " ", "A", " ", "l", ">", "\t">>),
   Str(Rep("n", MaxNameLen)), Str(Rep("n", MaxNameLen + 1)),
   Num(<<"7">>)}

EmailInputs ==
  {Undefined, Str(<<>>), Str(<<"a", "b">>), Str(<<"a", "@", "b">>),
   Str(<<"a", " ", "@", "b", ".", "c">>),
   Str(<<"a", "@", "@", "b", ".", "c">>),
   Str(<<"<", "a", "@", "b", ".", "c">>),
   Str(<<"a", "@", "b", ".", "<">>),
   Str(<<"c", "@", "d", ".", "e">>),
   Str(<<"a", "@", "b", ".">> \o Rep("c", MaxEmailLen - 3))}

PhoneInputs ==
  {Str(<<>>), Str(<<"0", "7">>), Str(Rep("0", MaxPhoneLen + 1))}

CompanyInputs ==
  {Undefined, Str(<<>>), Str(<<" ", ">">>), Str(<<"D", "e">>),
   Str(Rep("c", MaxCompanyLen + 1))}

PlanInputs ==
  {Str(<<"p", "r", "o">>), Str(<<"<", "p", "r", "o", ">">>),
   Str(Rep("p", MaxPlanLen + 1))}

ChallengeInputs ==
  {Undefined, Str(<<>>), Str(<<"\n">>), Str(<<"a", ",", "b">>),
   Str(<<"a", "\n", "b">>), Str(<<"a", "\"", "b">>),
   Str(Rep("y", MaxChallengeLen + 1))}

\* the bodies two requests in flight together are drawn from: the same
\* address twice, an address that differs only before sanitization, another
\* address, and a body that fails validation
CommonBodies ==
  {BaseBody,
   [BaseBody EXCEPT !.email = Str(<<"<", "a", "@", "b", ".", "c">>)],
   [BaseBody EXCEPT !.email = Str(<<"c", "@", "d", ".", "e">>)],
   [BaseBody EXCEPT !.name = Undefined]}

\* the request bodies of the model: BaseBody with one field replaced
Bodies ==
  {BaseBody}
  \cup {[BaseBody EXCEPT !.name = v] : v \in NameInputs}
  \cup {[BaseBody EXCEPT !.email = v] : v \in EmailInputs}
  \cup {[BaseBody EXCEPT !.phone = v] : v \in PhoneInputs}
  \cup {[BaseBody EXCEPT !.company = v] : v \in CompanyInputs}
  \cup {[BaseBody EXCEPT !.plan = v] : v \in PlanInputs}
  \cup {[BaseBody EXCEPT !.biggest_challenge = v] : v \in ChallengeInputs}

\* req.ip
Ips == {"10.0.0.1"}

\* req.get('User-Agent')
UserAgents == {"curl"}

\* values of process.env.ADMIN_KEY and of the x-admin-key header; NoKey is
\* JavaScript's undefined (variable unset, header absent)
NoKey == "undefined"
AdminSecrets == {NoKey, "s3cret"}
AdminHeaders == {NoKey, "s3cret", "wrong"}

(* ------------------- POST /api/waitlist: synchronous part -------------- *)
\* the checks of the handler up to its first await, in the order of the code
Validate(body) ==
  IF \/ ~Truthy(body.name) \/ ~Truthy(body.email)
     \/ ~Truthy(body.company) \/ ~Truthy(body.biggest_challenge)
  THEN "missing"
  ELSE IF \/ LengthExceeds(body.name, MaxNameLen)
          \/ LengthExceeds(body.email, MaxEmailLen)
          \/ (Truthy(body.phone) /\ LengthExceeds(body.phone, MaxPhoneLen))
          \/ LengthExceeds(body.company, MaxCompanyLen)
          \/ (Truthy(body.plan) /\ LengthExceeds(body.plan, MaxPlanLen))
          \/ LengthExceeds(body.biggest_challenge, MaxChallengeLen)
  THEN "too_long"
  ELSE IF ~validateEmail(body.email)
  THEN "bad_email"
  ELSE IF \/ SanitizeThrows(body.name) \/ SanitizeThrows(body.email)
          \/ (Truthy(body.phone) /\ SanitizeThrows(body.phone))
          \/ SanitizeThrows(body.company)
          \/ (Truthy(body.plan) /\ SanitizeThrows(body.plan))
          \/ SanitizeThrows(body.biggest_challenge)
  THEN "throws"
  ELSE "ok"

\* phone ? sanitizeInput(phone) : null
SanitizeOptional(v) == IF Truthy(v) THEN Str(sanitizeInput(v.s)) ELSE Null

\* sanitizedName .. sanitizedChallenge
Sanitized(body) ==
  [name |-> Str(sanitizeInput(body.name.s)),
   email |-> Str(sanitizeInput(body.email.s)),
   phone |-> SanitizeOptional(body.phone),
   company |-> Str(sanitizeInput(body.company.s)),
   plan |-> SanitizeOptional(body.plan),
   biggest_challenge |-> Str(sanitizeInput(body.biggest_challenge.s))]

\* Validate and Sanitized of the bodies of the model, evaluated once
ValidationOf == [b \in Bodies |-> Validate(b)]
SanitizedOf ==
  [b \in {x \in Bodies : Validate(x) = "ok"} |-> Sanitized(b)]

NoFields ==
  [name |-> Null, email |-> Null, phone |-> Null, company |-> Null,
   plan |-> Null, biggest_challenge |-> Null]

(* ------------------------------ the store ------------------------------ *)
\* an existence query that compares the wrong column
SelectByName(table, email) == {row \in table : row.name = email}

\* SELECT id FROM waitlist WHERE email = ?
SelectByEmail(table, email) == {row \in table : row.email = email}

\* a row stored under another id than the one the insert reports
NewRowOtherId(id, f, ip, ua, ts) ==
  [id |-> id + 1, name |-> f.name, email |-> f.email, phone |-> f.phone,
   company |-> f.company, plan |-> f.plan,
   biggest_challenge |-> f.biggest_challenge,
   created_at |-> ts, ip_address |-> ip, user_agent |-> ua]

\* a row as INSERT INTO waitlist builds it: id from AUTOINCREMENT,
\* created_at from DEFAULT CURRENT_TIMESTAMP
NewRow(id, f, ip, ua, ts) ==
  [id |-> id, name |-> f.name, email |-> f.email, phone |-> f.phone,
   company |-> f.company, plan |-> f.plan,
   biggest_challenge |-> f.biggest_challenge,
   created_at |-> ts, ip_address |-> ip, user_agent |-> ua]

\* an id that is not advanced once the table holds a row
NextIdStuck(s) == IF s = 0 THEN 1 ELSE s

\* id INTEGER PRIMARY KEY AUTOINCREMENT: one more than the largest id the
\* table ever held (this.lastID of the insert)
NextId(s) == s + 1

\* a table without the UNIQUE constraint on email
NoUniqueConstraint(table, f) == FALSE

\* email TEXT UNIQUE NOT NULL: the constraint the insert is checked against
UniqueViolation(table, f) == \E row \in table : row.email = f.email

\* an insert that replaces the table contents
InsertRowOverwrite(table, row) == {row}

\* the table after INSERT INTO waitlist of a row that passed its constraints
InsertRow(table, row) == table \cup {row}

(* --------------------------- the rate limiter -------------------------- *)
\* the addresses the limiter keeps hits for: one that sends many requests and
\* another one
BusyIp == "10.0.0.1"
OtherIp == "10.0.0.2"
LimiterIps == {BusyIp, OtherIp}

\* rateLimit({windowMs, max, message}) of src/server.js: every request counts
LimiterBasic == [max |-> LimitBasic, skipSuccessfulRequests |-> FALSE]

\* rateLimit({.., max: NODE_ENV === 'production' ? 20 : 1000,
\* skipSuccessfulRequests: true, skipFailedRequests: false})
LimiterEnhanced(env) ==
  [max |-> IF env = "production" THEN LimitProduction ELSE LimitDevelopment,
   skipSuccessfulRequests |-> TRUE]

\* message: the body of the 429
TooManyRequests == "Too many requests from this IP, please try again later."

\* the limiter when the server starts. hits is the store of the middleware;
\* pending counts the requests it let through that have not been answered,
\* arrivals and served the requests of the current window and those of them
\* it let through.
NewLimiter(options) ==
  [options |-> options,
   hits |-> [ip \in LimiterIps |-> 0],
   pending |-> [ip \in LimiterIps |-> 0],
   arrivals |-> [ip \in LimiterIps |-> 0],
   served |-> [ip \in LimiterIps |-> 0]]

(* ------------------------------- state --------------------------------- *)
VARIABLES
  waitlist,    \* the rows of table waitlist
  seq,         \* sqlite_sequence of the table: the largest id handed out
  ADMIN_KEY,   \* process.env.ADMIN_KEY
  req,         \* the POST /api/waitlist requests in flight, by slot
  nreq,        \* POST requests received so far that passed validation
  nuncommon,   \* those of them with a body outside CommonBodies
  last,        \* the response the latest step sent, until the client has it
  okIds,       \* the ids of the 201 responses, in the order they were sent
  limiter,     \* the rate limiter: its options and its hits by address
  outbox       \* the calls of transporter.sendMail, in their order

vars ==
  <<waitlist, seq, ADMIN_KEY, req, nreq, nuncommon, last, okIds, limiter,
    outbox>>

Slots == 1..MaxInflight

\* a call with its arguments in another order: the mail goes to the name
MailOptionsSwapped(name, email, company) ==
  [to |-> name, name |-> email, company |-> company]

\* mailOptions of sendConfirmationEmail(name, email, company): to is the
\* recipient, name and company are set into the html
MailOptions(name, email, company) ==
  [to |-> email, name |-> name, company |-> company]

\* the mails sent for the records of a table, in the order of their ids
SentFor(table) ==
  [k \in 1..Cardinality(table) |->
     LET row == CHOOSE w \in table : w.id = k
     IN MailOptions(row.name, row.email, row.company)]

Idle ==
  [pc |-> "idle", body |-> NoFields, san |-> NoFields, ip |-> "", ua |-> "",
   dbOps |-> 0, mails |-> 0, inserted |-> 0, id |-> 0,
   ackedAtStart |-> FALSE, floor |-> 0]

\* the largest element of a set of naturals, 0 for the empty set
MaxOf(S) == IF S = {} THEN 0 ELSE CHOOSE x \in S : \A y \in S : y <= x

\* CURRENT_TIMESTAMP when a row is inserted: a time of the clock no earlier
\* than the rows already stored
Timestamps(table) ==
  {ts \in 0..MaxClock : \A row \in table : row.created_at <= ts}

\* the sanitized emails a 201 response has been sent for
AckedEmails ==
  {row.email :
     row \in {w \in waitlist : \E k \in 1..Len(okIds) : okIds[k] = w.id}}

\* a handler that lets a failure of sendMail reach its catch
PostResponseMailThrows(r, status, err, mail) ==
  [ep |-> "post", status |-> IF mail = "failed" THEN 500 ELSE status,
   id |-> IF status = 201 /\ mail # "failed" THEN r.id ELSE 0,
   body |-> r.body, dbOps |-> r.dbOps, mails |-> r.mails,
   inserted |-> r.inserted, ackedAtStart |-> r.ackedAtStart,
   floor |-> r.floor,
   err |-> err, mail |-> mail]

\* res.status(status).json(..) of the POST handler for the request r; err is
\* what was caught ("store": the store failed, "unique": the UNIQUE constraint
\* rejected the insert, "type": a TypeError) and mail the outcome of sendMail
PostResponse(r, status, err, mail) ==
  [ep |-> "post", status |-> status,
   id |-> IF status = 201 THEN r.id ELSE 0,
   body |-> r.body, dbOps |-> r.dbOps, mails |-> r.mails,
   inserted |-> r.inserted, ackedAtStart |-> r.ackedAtStart,
   floor |-> r.floor,
   err |-> err, mail |-> mail]

NoResponse == [ep |-> "none", status |-> 0]

Init ==
  /\ waitlist = {}
  /\ seq = 0
  /\ ADMIN_KEY \in AdminSecrets
  /\ req = [s \in Slots |-> Idle]
  /\ nreq = 0
  /\ nuncommon = 0
  /\ last = NoResponse
  /\ okIds = <<>>
  /\ limiter = NewLimiter(LimiterEnhanced("development"))
  /\ outbox = <<>>

\* no POST is at an await
Quiet == \A s \in Slots : req[s].pc = "idle"

(* ----------------------- POST /api/waitlist ---------------------------- *)
\* Requests that pass validation are counted (at most MaxReqs of them, at most
\* MaxUncommon with a body outside CommonBodies, and those received when no
\* other request is in flight); a request that fails validation leaves no
\* state behind and is not counted.
\* the handler from the request to its first await (dbGet), or to the
\* response when validation fails or sanitizeInput throws
PostWaitlist(s, body, ip, ua) ==
  /\ last = NoResponse
  /\ req[s].pc = "idle"
  /\ \A o \in Slots : o < s => req[o].pc # "idle"
  /\ body \in CommonBodies \/ Quiet
  /\ LET v == ValidationOf[body]
         r == [Idle EXCEPT !.body = body, !.ip = ip, !.ua = ua,
                           !.floor = MaxOf({okIds[k] : k \in 1..Len(okIds)})]
     IN CASE v \in {"missing", "too_long", "bad_email"} ->
               /\ last' = PostResponse(r, 400, "none", "none")
               /\ UNCHANGED <<req, nreq, nuncommon>>
          [] v = "throws" ->
               /\ last' = PostResponse(r, 500, "type", "none")
               /\ UNCHANGED <<req, nreq, nuncommon>>
          [] OTHER ->
               /\ nreq < MaxReqs
               /\ body \notin CommonBodies => nuncommon < MaxUncommon
               /\ nreq' = nreq + 1
               /\ nuncommon' =
                    IF body \in CommonBodies THEN nuncommon ELSE nuncommon + 1
               /\ req' = [req EXCEPT ![s] =
                    [r EXCEPT !.pc = "awaitGet", !.san = SanitizedOf[body],
                              !.dbOps = 1,
                              !.ackedAtStart =
                                 (SanitizedOf[body].email \in AckedEmails)]]
               /\ last' = NoResponse
  /\ UNCHANGED <<waitlist, seq, ADMIN_KEY, okIds, limiter, outbox>>

\* dbGet('SELECT id FROM waitlist WHERE email = ?') settles: ok is whether
\* the store answered; the handler goes on to the 409 or to dbRun
GetDone(s, ok) ==
  /\ last = NoResponse
  /\ req[s].pc = "awaitGet"
  /\ LET r == req[s]
     IN IF ~ok
        THEN /\ last' = PostResponse(r, 500, "store", "none")
             /\ req' = [req EXCEPT ![s] = Idle]
        ELSE IF SelectByEmail(waitlist, r.san.email) # {}
        THEN /\ last' = PostResponse(r, 409, "none", "none")
             /\ req' = [req EXCEPT ![s] = Idle]
        ELSE /\ req' = [req EXCEPT ![s] =
                  [r EXCEPT !.pc = "awaitRun", !.dbOps = 2]]
             /\ last' = NoResponse
  /\ UNCHANGED <<waitlist, seq, ADMIN_KEY, nreq, nuncommon, okIds,
                 limiter, outbox>>

\* dbRun('INSERT INTO waitlist ..') settles: rejected when the store fails
\* or the UNIQUE constraint is violated (the catch answers 500); otherwise
\* the row is in the table and sendConfirmationEmail has called sendMail
RunDone(s, ok, ts) ==
  /\ last = NoResponse
  /\ req[s].pc = "awaitRun"
  /\ ts \in Timestamps(waitlist)
  /\ LET r == req[s]
     IN IF ~ok
        THEN /\ last' = PostResponse(r, 500, "store", "none")
             /\ req' = [req EXCEPT ![s] = Idle]
             /\ UNCHANGED <<waitlist, seq, outbox>>
        ELSE IF UniqueViolation(waitlist, r.san)
        THEN /\ last' = PostResponse(r, 500, "unique", "none")
             /\ req' = [req EXCEPT ![s] = Idle]
             /\ UNCHANGED <<waitlist, seq, outbox>>
        ELSE /\ waitlist' =
                  InsertRow(waitlist,
                            NewRow(NextId(seq), r.san, r.ip, r.ua, ts))
             /\ seq' = NextId(seq)
             /\ outbox' =
                  Append(outbox,
                         MailOptions(r.san.name, r.san.email, r.san.company))
             /\ req' = [req EXCEPT ![s] =
                  [r EXCEPT !.pc = "awaitMail", !.id = NextId(seq),
                            !.inserted = 1, !.mails = 1]]
             /\ last' = NoResponse
  /\ UNCHANGED <<ADMIN_KEY, nreq, nuncommon, okIds, limiter>>

\* transporter.sendMail settles (sent, or failed and caught in
\* sendConfirmationEmail); the handler answers 201 with result.id
MailDone(s, sent) ==
  /\ last = NoResponse
  /\ req[s].pc = "awaitMail"
  /\ last' = PostResponse(req[s], 201, "none",
                          IF sent THEN "sent" ELSE "failed")
  /\ okIds' = Append(okIds, req[s].id)
  /\ req' = [req EXCEPT ![s] = Idle]
  /\ UNCHANGED <<waitlist, seq, ADMIN_KEY, nreq, nuncommon, limiter, outbox>>

(* --------------------------- read endpoints ---------------------------- *)
\* The read endpoints answer in one step of the model, taken when no POST is
\* at an await: a read sees only the table, and every table contents occurs
\* in such a state too.

\* adminKey !== process.env.ADMIN_KEY
KeyMismatch(adminKey, secret) == adminKey # secret

\* a response of a read endpoint with nothing in it
ReadResponse(ep, adminKey) ==
  [ep |-> ep, key |-> adminKey, status |-> 0, dbOps |-> 0, error |-> "",
   count |-> 0, rows |-> <<>>, byPlan |-> {}, recent7Days |-> 0,
   topCompanies |-> <<>>, csv |-> <<>>]

\* res.status(401).json({ error: 'Unauthorized' })
Unauthorized(ep, adminKey) ==
  [ReadResponse(ep, adminKey) EXCEPT !.status = 401, !.error = "Unauthorized"]

\* res.status(500).json({ error: 'Database error' }) after n store operations
DatabaseError(ep, adminKey, n) ==
  [ReadResponse(ep, adminKey) EXCEPT
     !.status = 500, !.dbOps = n, !.error = "Database error"]

\* GET /api/waitlist/count: SELECT COUNT(*) as count FROM waitlist
GetCount(ok) ==
  /\ last = NoResponse
  /\ Quiet
  /\ last' = IF ok
             THEN [ReadResponse("count", NoKey) EXCEPT
                     !.status = 200, !.dbOps = 1,
                     !.count = Cardinality(waitlist)]
             ELSE DatabaseError("count", NoKey, 1)
  /\ UNCHANGED <<waitlist, seq, ADMIN_KEY, req, nreq, nuncommon, okIds,
                 limiter, outbox>>

\* SELECT * FROM waitlist ORDER BY created_at DESC: the rows in an order the
\* query allows (rows of one created_at come in any order)
OrderedRows(table) ==
  {rows \in [1..Cardinality(table) -> table] :
     /\ \A i \in DOMAIN rows : \A k \in DOMAIN rows :
          rows[i] = rows[k] => i = k
     /\ \A i \in DOMAIN rows : \A k \in DOMAIN rows :
          i < k => rows[i].created_at >= rows[k].created_at}

\* GET /api/admin/waitlist
GetAdminWaitlist(adminKey, ok, rows) ==
  /\ last = NoResponse
  /\ Quiet
  /\ rows \in OrderedRows(waitlist)
  /\ last' = IF KeyMismatch(adminKey, ADMIN_KEY)
             THEN Unauthorized("admin/waitlist", adminKey)
             ELSE IF ok
             THEN [ReadResponse("admin/waitlist", adminKey) EXCEPT
                     !.status = 200, !.dbOps = 1, !.rows = rows]
             ELSE DatabaseError("admin/waitlist", adminKey, 1)
  /\ UNCHANGED <<waitlist, seq, ADMIN_KEY, req, nreq, nuncommon, okIds,
                 limiter, outbox>>

\* Array.prototype.join: the texts of parts with sep between them
RECURSIVE Join(_, _)
Join(parts, sep) ==
  IF parts = <<>> THEN <<>>
  ELSE IF Len(parts) = 1 THEN parts[1]
  ELSE Join(SubSeq(parts, 1, Len(parts) - 1), sep)
         \o sep \o parts[Len(parts)]

\* csvHeaders
CsvHeaders ==
  <<<<"I", "D">>, <<"N", "a", "m", "e">>, <<"E", "m", "a", "i", "l">>,
    <<"P", "h", "o", "n", "e">>, <<"C", "o", "m", "p", "a", "n", "y">>,
    <<"P", "l", "a", "n">>,
    <<"B", "i", "g", "g", "e", "s", "t", " ",
      "C", "h", "a", "l", "l", "e", "n", "g", "e">>,
    <<"C", "r", "e", "a", "t", "e", "d", " ", "A", "t">>,
    <<"I", "P", " ", "A", "d", "d", "r", "e", "s", "s">>>>

\* `"${v}"` of a text column, `"${v || ''}"` of one that may be NULL
Quoted(v) == <<"\"">> \o v.s \o <<"\"">>

\* the text sqlite keeps for created_at, 'YYYY-MM-DD HH:MM:SS': the clock
\* counts the days of one month
CreatedAtText(ts) ==
  <<"2", "0", "2", "5", "-", "0", "1", "-">>
    \o (IF ts + 1 < 10 THEN <<"0">> ELSE <<>>) \o NumberToString(ts + 1)
    \o <<" ", "0", "0", ":", "0", "0", ":", "0", "0">>

\* the characters of req.ip
IpText(ip) ==
  IF ip = "10.0.0.1"
  THEN <<"1", "0", ".", "0", ".", "0", ".", "1">>
  ELSE <<"1", "0", ".", "0", ".", "0", ".", "2">>

\* [row.id, `"${row.name}"`, .., row.ip_address || ''].join(',')
CsvRow(row) ==
  Join(<<NumberToString(row.id), Quoted(row.name), Quoted(row.email),
         Quoted(row.phone), Quoted(row.company), Quoted(row.plan),
         Quoted(row.biggest_challenge), CreatedAtText(row.created_at),
         IpText(row.ip_address)>>,
       <<",">>)

\* [csvHeaders.join(','), ...csvRows].join('\n')
CsvContent(rows) ==
  Join(<<Join(CsvHeaders, <<",">>)>>
         \o [i \in 1..Len(rows) |-> CsvRow(rows[i])],
       <<"\n">>)

\* GET /api/admin/export: the same rows, sent as CSV
GetAdminExport(adminKey, ok, rows) ==
  /\ last = NoResponse
  /\ Quiet
  /\ rows \in OrderedRows(waitlist)
  /\ last' = IF KeyMismatch(adminKey, ADMIN_KEY)
             THEN Unauthorized("admin/export", adminKey)
             ELSE IF ok
             THEN [ReadResponse("admin/export", adminKey) EXCEPT
                     !.status = 200, !.dbOps = 1,
                     !.csv = CsvContent(rows)]
             ELSE DatabaseError("admin/export", adminKey, 1)
  /\ UNCHANGED <<waitlist, seq, ADMIN_KEY, req, nreq, nuncommon, okIds,
                 limiter, outbox>>

\* the query without its WHERE clause: NULL plans form a group
PlanStatsWithNull(table) ==
  {[plan |-> p, count |-> Cardinality({w \in table : w.plan = p})] :
     p \in {w.plan : w \in table}}

\* SELECT plan, COUNT(*) as count FROM waitlist WHERE plan IS NOT NULL
\* GROUP BY plan
PlanStats(table) ==
  {[plan |-> p, count |-> Cardinality({w \in table : w.plan = p})] :
     p \in {w.plan : w \in {x \in table : x.plan # Null}}}

\* SELECT company, COUNT(*) as count FROM waitlist GROUP BY company
CompanyStats(table) ==
  {[company |-> c, count |-> Cardinality({w \in table : w.company = c})] :
     c \in {w.company : w \in table}}

\* the number of rows of LIMIT 5
TopLimit == 5

\* .. ORDER BY count DESC LIMIT 5: the first groups of an order the query
\* allows (groups of one count come in any order)
TopCompanies(table) ==
  LET groups == CompanyStats(table)
      n == IF Cardinality(groups) < TopLimit
           THEN Cardinality(groups) ELSE TopLimit
  IN {top \in [1..n -> groups] :
        /\ \A i \in DOMAIN top : \A k \in DOMAIN top : top[i] = top[k] => i = k
        /\ \A i \in DOMAIN top : \A k \in DOMAIN top :
             i < k => top[i].count >= top[k].count
        /\ \A g \in groups :
             (\A i \in DOMAIN top : top[i] # g) =>
               \A i \in DOMAIN top : top[i].count >= g.count}

\* the clock counts days: created_at >= datetime('now', '-7 days')
RecentRows(table, today) == {w \in table : w.created_at >= today - 7}

\* GET /api/admin/stats: four queries; failed is the one that fails, 0 when
\* none does
GetAdminStats(adminKey, failed, today, top) ==
  /\ last = NoResponse
  /\ Quiet
  /\ today \in Timestamps(waitlist)
  /\ top \in TopCompanies(waitlist)
  /\ last' = IF KeyMismatch(adminKey, ADMIN_KEY)
             THEN Unauthorized("admin/stats", adminKey)
             ELSE IF failed = 0
             THEN [ReadResponse("admin/stats", adminKey) EXCEPT
                     !.status = 200, !.dbOps = 4,
                     !.count = Cardinality(waitlist),
                     !.byPlan = PlanStats(waitlist),
                     !.recent7Days =
                        Cardinality(RecentRows(waitlist, today)),
                     !.topCompanies = top]
             ELSE DatabaseError("admin/stats", adminKey, failed)
  /\ UNCHANGED <<waitlist, seq, ADMIN_KEY, req, nreq, nuncommon, okIds,
                 limiter, outbox>>

\* GET /api/health: no store access
GetHealth ==
  /\ last = NoResponse
  /\ Quiet
  /\ last' = [ReadResponse("health", NoKey) EXCEPT !.status = 200]
  /\ UNCHANGED <<waitlist, seq, ADMIN_KEY, req, nreq, nuncommon, okIds,
                 limiter, outbox>>

\* the client receives the response: the next step of the server starts
\* from NoResponse, so every response is the last one in exactly one state
Received ==
  /\ last # NoResponse
  /\ last' = NoResponse
  /\ UNCHANGED <<waitlist, seq, ADMIN_KEY, req, nreq, nuncommon, okIds,
                 limiter, outbox>>

(* ------------------- app.use(limiter): every request ------------------- *)
\* Spec follows the requests the limiter lets through; SpecLimit follows the
\* limiter, with the handler behind it reduced to whether its response is a
\* success (statusCode < 400).

ArrivalCap(ip) == IF ip = BusyIp THEN MaxArrivals ELSE MaxOtherArrivals

\* the response of a request of address ip that went through the limiter
LimiterResponse(ip, status, message) ==
  [ep |-> "limiter", status |-> status, ip |-> ip, message |-> message,
   hits |-> limiter.hits, served |-> limiter.served]

\* a request arrives: its address is counted; over max it is answered 429
\* with the message, otherwise it goes on to its handler
LimiterArrive(ip) ==
  /\ limiter.arrivals[ip] < ArrivalCap(ip)
  /\ limiter.pending[ip] < MaxInflight
  /\ LET hit == limiter.hits[ip] + 1
         counted == [limiter EXCEPT !.hits[ip] = hit,
                                    !.arrivals[ip] = @ + 1]
     IN IF hit > limiter.options.max
        THEN /\ limiter' = counted
             /\ last' = LimiterResponse(ip, 429, TooManyRequests)
        ELSE /\ limiter' = [counted EXCEPT !.pending[ip] = @ + 1,
                                           !.served[ip] = @ + 1]
             /\ last' = NoResponse
  /\ UNCHANGED <<waitlist, seq, ADMIN_KEY, req, nreq, nuncommon, okIds, outbox>>

\* the response of a request the limiter let through is finished: with
\* skipSuccessfulRequests a success is taken off the hits of its address
LimiterFinish(ip, ok) ==
  /\ limiter.pending[ip] > 0
  /\ limiter' =
       [limiter EXCEPT
          !.pending[ip] = @ - 1,
          !.hits[ip] =
             IF limiter.options.skipSuccessfulRequests /\ ok /\ @ > 0
             THEN @ - 1 ELSE @]
  /\ last' = LimiterResponse(ip, IF ok THEN 200 ELSE 400, "")
  /\ UNCHANGED <<waitlist, seq, ADMIN_KEY, req, nreq, nuncommon, okIds, outbox>>

\* windowMs has passed: the hits of every address are forgotten
LimiterReset ==
  /\ \E ip \in LimiterIps : limiter.arrivals[ip] > 0
  /\ limiter' =
       [limiter EXCEPT !.hits = [ip \in LimiterIps |-> 0],
                       !.arrivals = [ip \in LimiterIps |-> 0],
                       !.served = [ip \in LimiterIps |-> 0]]
  /\ last' = NoResponse
  /\ UNCHANGED <<waitlist, seq, ADMIN_KEY, req, nreq, nuncommon, okIds, outbox>>

InitLimit ==
  /\ waitlist = {}
  /\ seq = 0
  /\ ADMIN_KEY = NoKey
  /\ req = [s \in Slots |-> Idle]
  /\ nreq = 0
  /\ nuncommon = 0
  /\ last = NoResponse
  /\ okIds = <<>>
  /\ limiter \in {NewLimiter(LimiterBasic),
                  NewLimiter(LimiterEnhanced("production")),
                  NewLimiter(LimiterEnhanced("development"))}
  /\ outbox = <<>>

NextLimit ==
  \/ \E ip \in LimiterIps : LimiterArrive(ip)
  \/ \E ip \in LimiterIps, ok \in BOOLEAN : LimiterFinish(ip, ok)
  \/ LimiterReset

SpecLimit == InitLimit /\ [][NextLimit]_vars

(* -------------------- the reports on larger tables --------------------- *)
\* SpecReport starts from a table that earlier submissions have left behind
\* and follows the authorized admin reports on it while the store works (Spec
\* has the other outcomes). The table holds counts[j] records of the j-th
\* company, most records first; its first pro records have plan "pro", the
\* following pro - 1 records "basic", the others none.

CompanyName(j) == Str(<<"C">> \o NumberToString(j))
PlanPro == Str(<<"p", "r", "o">>)
PlanBasic == Str(<<"b", "a", "s", "i", "c">>)

RECURSIVE RowsBefore(_, _)
RowsBefore(counts, j) ==
  IF j = 1 THEN 0 ELSE RowsBefore(counts, j - 1) + counts[j - 1]

\* the fields of the id-th record of such a table
ReportFields(id, j, pro, basic) ==
  [name |-> Str(<<"A", "l">>),
   email |-> Str(<<"u">> \o NumberToString(id) \o <<"@", "b", ".", "c">>),
   phone |-> Null,
   company |-> CompanyName(j),
   plan |-> IF id <= pro THEN PlanPro
            ELSE IF id <= pro + basic THEN PlanBasic ELSE Null,
   biggest_challenge |-> Str(<<"x">>)]

ReportTable(counts, pro) ==
  {NewRow(RowsBefore(counts, j) + i,
          ReportFields(RowsBefore(counts, j) + i, j, pro,
                       IF pro = 0 THEN 0 ELSE pro - 1),
          "10.0.0.1", "curl", 0) :
     <<j, i>> \in {p \in (1..MaxCompanies) \X (1..MaxPerCompany) :
                    p[2] <= counts[p[1]]}}

InitReport ==
  \E counts \in [1..MaxCompanies -> 0..MaxPerCompany] :
    \E pro \in 0..MaxPerPlan :
      /\ \A j \in 2..MaxCompanies : counts[j] <= counts[j - 1]
      /\ waitlist = ReportTable(counts, pro)
      /\ seq = Cardinality(ReportTable(counts, pro))
      /\ okIds = [k \in 1..Cardinality(ReportTable(counts, pro)) |-> k]
      /\ ADMIN_KEY = "s3cret"
      /\ req = [s \in Slots |-> Idle]
      /\ nreq = 0
      /\ nuncommon = 0
      /\ last = NoResponse
      /\ limiter = NewLimiter(LimiterEnhanced("development"))
      /\ outbox = SentFor(ReportTable(counts, pro))

NextReport ==
  \/ /\ last = NoResponse
     /\ \E top \in TopCompanies(waitlist), today \in 0..MaxClock :
          GetAdminStats(ADMIN_KEY, 0, today, top)
  \/ Received

SpecReport == InitReport /\ [][NextReport]_vars

(* --------------------------- specification ----------------------------- *)
Next ==
  \/ \E s \in Slots, body \in Bodies, ip \in Ips, ua \in UserAgents :
       PostWaitlist(s, body, ip, ua)
  \/ \E s \in Slots, ok \in BOOLEAN : GetDone(s, ok)
  \/ \E s \in Slots, ok \in BOOLEAN, ts \in 0..MaxClock : RunDone(s, ok, ts)
  \/ \E s \in Slots, sent \in BOOLEAN : MailDone(s, sent)
  \/ \E ok \in BOOLEAN : GetCount(ok)
  \/ /\ last = NoResponse
     /\ \E rows \in OrderedRows(waitlist) :
          \E k \in AdminHeaders, ok \in BOOLEAN :
            GetAdminWaitlist(k, ok, rows)
  \/ /\ last = NoResponse
     /\ \E top \in TopCompanies(waitlist) :
          \E k \in AdminHeaders, failed \in 0..4, today \in 0..MaxClock :
            GetAdminStats(k, failed, today, top)
  \/ /\ last = NoResponse
     /\ \E rows \in OrderedRows(waitlist) :
          \E k \in AdminHeaders, ok \in BOOLEAN :
            GetAdminExport(k, ok, rows)
  \/ GetHealth
  \/ Received

Spec == Init /\ [][Next]_vars

\* The callbacks of the store are always delivered (a callback waits while
\* another response is on its way out, hence strong fairness) and every
\* response is received; nothing makes transporter.sendMail settle.
Fairness ==
  /\ SF_vars(\E s \in Slots, ok \in BOOLEAN : GetDone(s, ok))
  /\ SF_vars(\E s \in Slots, ok \in BOOLEAN, ts \in 0..MaxClock :
               RunDone(s, ok, ts))
  /\ WF_vars(Received)

SpecLive == Spec /\ Fairness

(* ------------------ src/server.js: the first server -------------------- *)
\* The same table and endpoints without sanitization, length limits, phone,
\* plan, stats and export; its handler works with callbacks and does not
\* wait for sendConfirmationEmail.

\* email.includes('@'): a TypeError for a value that is no string
IncludesAt(v) == \E i \in 1..Len(v.s) : v.s[i] = "@"

\* the checks of the handler before db.get
ValidateBasic(body) ==
  IF \/ ~Truthy(body.name) \/ ~Truthy(body.email)
     \/ ~Truthy(body.company) \/ ~Truthy(body.biggest_challenge)
  THEN "missing"
  ELSE IF body.email.t # "str"
  THEN "throws"
  ELSE IF ~IncludesAt(body.email)
  THEN "bad_email"
  ELSE "ok"

\* the values bound to the INSERT: the fields of the body as received (a
\* TEXT column stores a number as its digits)
RawFields(body) ==
  [name |-> Str(body.name.s),
   email |-> Str(body.email.s),
   phone |-> Null,
   company |-> Str(body.company.s),
   plan |-> Null,
   biggest_challenge |-> Str(body.biggest_challenge.s)]

ValidationOfBasic == [b \in Bodies |-> ValidateBasic(b)]

\* the handler from the request to db.get, or to the 400
PostWaitlistBasic(s, body, ip, ua) ==
  /\ last = NoResponse
  /\ req[s].pc = "idle"
  /\ \A o \in Slots : o < s => req[o].pc # "idle"
  /\ body \in CommonBodies \/ Quiet
  /\ LET v == ValidationOfBasic[body]
         r == [Idle EXCEPT !.body = body, !.ip = ip, !.ua = ua,
                           !.floor = MaxOf({okIds[k] : k \in 1..Len(okIds)})]
     IN CASE v \in {"missing", "bad_email"} ->
               /\ last' = PostResponse(r, 400, "none", "none")
               /\ UNCHANGED <<req, nreq, nuncommon>>
          [] v = "throws" ->
               /\ last' = PostResponse(r, 500, "type", "none")
               /\ UNCHANGED <<req, nreq, nuncommon>>
          [] OTHER ->
               /\ nreq < MaxReqs
               /\ body \notin CommonBodies => nuncommon < MaxUncommon
               /\ nreq' = nreq + 1
               /\ nuncommon' =
                    IF body \in CommonBodies THEN nuncommon ELSE nuncommon + 1
               /\ req' = [req EXCEPT ![s] =
                    [r EXCEPT !.pc = "awaitGet", !.san = RawFields(body),
                              !.dbOps = 1,
                              !.ackedAtStart =
                                 (RawFields(body).email \in AckedEmails)]]
               /\ last' = NoResponse
  /\ UNCHANGED <<waitlist, seq, ADMIN_KEY, okIds, limiter, outbox>>

\* the callback of db.get: 500 on err, 409 on a row, else db.run is called
GetDoneBasic(s, ok) == GetDone(s, ok)

\* the callback of db.run: 500 on err (the store failed or the UNIQUE
\* constraint rejected the row); otherwise sendConfirmationEmail is called,
\* not awaited, and the 201 is sent with this.lastID
RunDoneBasic(s, ok, ts) ==
  /\ last = NoResponse
  /\ req[s].pc = "awaitRun"
  /\ ts \in Timestamps(waitlist)
  /\ LET r == req[s]
     IN IF ~ok
        THEN /\ last' = PostResponse(r, 500, "store", "none")
             /\ UNCHANGED <<waitlist, seq, okIds, outbox>>
        ELSE IF UniqueViolation(waitlist, r.san)
        THEN /\ last' = PostResponse(r, 500, "unique", "none")
             /\ UNCHANGED <<waitlist, seq, okIds, outbox>>
        ELSE /\ waitlist' =
                  InsertRow(waitlist,
                            NewRow(NextId(seq), r.san, r.ip, r.ua, ts))
             /\ seq' = NextId(seq)
             /\ outbox' =
                  Append(outbox,
                         MailOptions(r.san.name, r.san.email, r.san.company))
             /\ okIds' = Append(okIds, NextId(seq))
             /\ last' = PostResponse(
                          [r EXCEPT !.id = NextId(seq), !.inserted = 1,
                                    !.mails = 1],
                          201, "none", "pending")
  /\ req' = [req EXCEPT ![s] = Idle]
  /\ UNCHANGED <<ADMIN_KEY, nreq, nuncommon, limiter>>

NextBasic ==
  \/ \E s \in Slots, body \in Bodies, ip \in Ips, ua \in UserAgents :
       PostWaitlistBasic(s, body, ip, ua)
  \/ \E s \in Slots, ok \in BOOLEAN : GetDoneBasic(s, ok)
  \/ \E s \in Slots, ok \in BOOLEAN, ts \in 0..MaxClock :
       RunDoneBasic(s, ok, ts)
  \/ \E ok \in BOOLEAN : GetCount(ok)
  \/ /\ last = NoResponse
     /\ \E rows \in OrderedRows(waitlist) :
          \E k \in AdminHeaders, ok \in BOOLEAN :
            GetAdminWaitlist(k, ok, rows)
  \/ GetHealth
  \/ Received

SpecBasic == Init /\ [][NextBasic]_vars

(* ------------------------------- claims -------------------------------- *)
AdminEndpoints == {"admin/waitlist", "admin/stats", "admin/export"}
ReadEndpoints == AdminEndpoints \cup {"count", "health"}

\* C1: no two lead records of the store have the same email, whatever the
\* interleaving of the POST /api/waitlist requests.
C1_UniqueEmail ==
  \A r1 \in waitlist : \A r2 \in waitlist : r1.email = r2.email => r1 = r2

\* a request that passed the existence check is about to insert an address
\* that another request has stored in the meantime
C1_Witness ==
  \E s \in Slots : \E row \in waitlist :
    req[s].pc = "awaitRun" /\ req[s].san.email = row.email

\* C2: the request whose insert the UNIQUE constraint rejects, after two
\* requests with the same sanitized email both passed the existence check, is
\* answered 409, and exactly one record holds that email.
C2_LoserAnswered409 ==
  (last.ep = "post" /\ last.err = "unique") =>
    /\ last.status = 409
    /\ Cardinality(
         {row \in waitlist : row.email = SanitizedOf[last.body].email}) = 1

\* C3: a POST that passed validation and was received after a 201 had been
\* sent for its sanitized email, and whose existence query the store
\* answered, is answered 409 and inserts nothing; the store holds exactly one
\* record for every email a 201 was sent for.
C3_DuplicateRejected ==
  /\ (last.ep = "post" /\ last.ackedAtStart) =>
       /\ last.inserted = 0
       /\ last.err # "store" => last.status = 409
  /\ \A e \in AckedEmails :
       Cardinality({row \in waitlist : row.email = e}) = 1

\* a resubmission of an acknowledged address, written differently before
\* sanitization, has been answered 409
C3_Witness ==
  /\ last.ep = "post" /\ last.ackedAtStart /\ last.status = 409
  /\ \E row \in waitlist :
       /\ row.email = SanitizedOf[last.body].email
       /\ row.email # last.body.email

\* local@domain.tld: exactly one '@' after a non-empty local part, no
\* whitespace, and a '.' inside the domain with something on both sides
C6_Shape(s) ==
  LET ats == {i \in 1..Len(s) : s[i] = "@"}
  IN /\ Cardinality(ats) = 1
     /\ \A k \in 1..Len(s) : s[k] \notin Whitespace
     /\ \E a \in ats :
          /\ a > 1
          /\ \E d \in (a + 2)..(Len(s) - 1) : s[d] = "."

\* the validation failures the claim lists, read off the request body
C4_Missing(v) == v = Undefined \/ v = Str(<<>>)
C4_TooLong(v, n) == v.t = "str" /\ Len(v.s) > n
C4_Malformed(v) == v.t = "str" /\ ~C6_Shape(v.s)
C4_AnyTooLong(b) ==
  \/ C4_TooLong(b.name, 100) \/ C4_TooLong(b.email, 100)
  \/ C4_TooLong(b.phone, 20) \/ C4_TooLong(b.company, 100)
  \/ C4_TooLong(b.plan, 50) \/ C4_TooLong(b.biggest_challenge, 500)
C4_FailsValidation(b) ==
  \/ C4_Missing(b.name) \/ C4_Missing(b.email)
  \/ C4_Missing(b.company) \/ C4_Missing(b.biggest_challenge)
  \/ C4_AnyTooLong(b)
  \/ C4_Malformed(b.email)

\* C4: a POST whose body fails validation (a required field missing or
\* empty, a field over its maximum length, a malformed email) is answered 400
\* having issued no store operation and no notification and inserted nothing.
C4_InvalidRejected ==
  (last.ep = "post" /\ C4_FailsValidation(last.body)) =>
    /\ last.status = 400
    /\ last.dbOps = 0
    /\ last.mails = 0
    /\ last.inserted = 0

\* an over-long submission is rejected while the store holds a record
C4_Witness ==
  /\ last.ep = "post" /\ last.status = 400
  /\ C4_AnyTooLong(last.body)
  /\ waitlist # {}

\* C5: every stored lead record has a non-empty name, email, company and
\* biggest_challenge.
C5_RequiredNonEmpty ==
  \A row \in waitlist :
    /\ row.name.s # <<>>
    /\ row.email.s # <<>>
    /\ row.company.s # <<>>
    /\ row.biggest_challenge.s # <<>>

\* C6: the email of every stored lead record has the shape local@domain.tld.
C6_StoredEmailShape == \A row \in waitlist : C6_Shape(row.email.s)

\* C7: a submission with a field over its maximum length is answered 400,
\* and no stored record has a field longer than its maximum.
C7_LengthLimits ==
  /\ (last.ep = "post" /\ C4_AnyTooLong(last.body)) => last.status = 400
  /\ \A row \in waitlist :
       /\ Len(row.name.s) <= 100
       /\ Len(row.email.s) <= 100
       /\ Len(row.phone.s) <= 20
       /\ Len(row.company.s) <= 100
       /\ Len(row.plan.s) <= 50
       /\ Len(row.biggest_challenge.s) <= 500

\* a name of exactly the maximum length is stored
C7_Witness == \E row \in waitlist : Len(row.name.s) = 100

\* C8: an admin request with no x-admin-key header, or with one that differs
\* from the secret, is answered 401 before any store read, with a response
\* that does not depend on the store, whatever the secret is (unset included).
C8_AdminNeedsKey ==
  (last.ep \in AdminEndpoints /\ (last.key = NoKey \/ last.key # ADMIN_KEY)) =>
    /\ last.status = 401
    /\ last.dbOps = 0
    /\ last.count = 0
    /\ last.rows = <<>>
    /\ last.byPlan = {}
    /\ last.recent7Days = 0
    /\ last.topCompanies = <<>>
    /\ last.csv = <<>>

\* C9: the id of a 201 response is larger than the id of every 201 response
\* sent before its request was received, and no id is returned twice.
C9_IdsIncrease ==
  /\ (last.ep = "post" /\ last.status = 201) => last.id > last.floor
  /\ \A i \in 1..Len(okIds) : \A j \in 1..Len(okIds) :
       okIds[i] = okIds[j] => i = j

\* a second submission succeeded after the first one had been answered
C9_Witness ==
  last.ep = "post" /\ last.status = 201 /\ last.floor > 0 /\ Len(okIds) = 2

\* C10: a record in the store stays in the store with every field unchanged
\* under every step, and count, admin list, stats, export and health leave
\* the store as it is.
C10_Immutable ==
  [][/\ \A row \in waitlist : row \in waitlist'
     /\ last'.ep \in ReadEndpoints => (waitlist' = waitlist /\ seq' = seq)]_vars

\* the export has been served from a store that holds a record
C10_Witness ==
  last.ep = "admin/export" /\ last.status = 200 /\ waitlist # {}

\* C11: a submission whose insert succeeded is answered 201 with the id of
\* its record whether sendMail succeeded or failed, and the record of every
\* insert that succeeded is in the store.
C11_MailFailureContained ==
  /\ (last.ep = "post" /\ last.inserted = 1) =>
       /\ last.status = 201
       /\ last.mail \in {"sent", "failed"}
       /\ \E row \in waitlist :
            /\ row.id = last.id
            /\ row.email = SanitizedOf[last.body].email
  /\ \A s \in Slots :
       req[s].inserted = 1 => \E row \in waitlist : row.id = req[s].id
  /\ \A k \in 1..Len(okIds) : \E row \in waitlist : row.id = okIds[k]

\* sendMail failed for a submission whose record is in the store
C11_Witness ==
  /\ last.ep = "post" /\ last.mail = "failed" /\ last.inserted = 1
  /\ \E row \in waitlist : row.id = last.id

\* C12: once the insert of a submission has succeeded, its 201 response is
\* eventually sent, also when the call of the mail transport never completes.
C12_ResponseNotBlocked ==
  \A i \in 1..MaxReqs :
    (\E row \in waitlist : row.id = i) ~>
      (\E k \in 1..Len(okIds) : okIds[k] = i)

\* C13: in one window, the limiter lets through at most max requests of one
\* address (5, or 20 in production and 1000 otherwise); a request answered
\* 429 carries the fixed message; and an address is answered 429 only when
\* its own requests of the window exceed max.
C13_RateLimited ==
  /\ \A ip \in LimiterIps : limiter.served[ip] <= limiter.options.max
  /\ (last.ep = "limiter" /\ last.status = 429) =>
       /\ last.message = TooManyRequests
       /\ limiter.arrivals[last.ip] > limiter.options.max

\* the value the claim gives for a submitted text: leading and trailing
\* whitespace dropped, then every '<' and '>' left out
C14_Blank(c) == c = " " \/ c = "\n" \/ c = "\t"
C14_Core(s) ==
  LET lead == Cardinality({i \in 1..Len(s) : \A k \in 1..i : C14_Blank(s[k])})
      trail ==
        Cardinality({i \in 1..Len(s) : \A k \in i..Len(s) : C14_Blank(s[k])})
  IN IF lead = Len(s) THEN <<>> ELSE SubSeq(s, lead + 1, Len(s) - trail)
C14_NoAngles(s) ==
  LET kept == {i \in 1..Len(s) : s[i] # "<" /\ s[i] # ">"}
      nth(j) ==
        CHOOSE i \in kept : Cardinality({k \in kept : k <= i}) = j
  IN [j \in 1..Cardinality(kept) |-> s[nth(j)]]
C14_Expected(s) == C14_NoAngles(C14_Core(s))

\* C14_Expected of the texts of the bodies that pass validation, found once
C14_SubmittedTexts ==
  {v \in UNION {{b.name, b.email, b.phone, b.company, b.plan,
                  b.biggest_challenge} : b \in DOMAIN SanitizedOf} :
     v.t = "str"}
C14_ExpectedOf == [v \in C14_SubmittedTexts |-> Str(C14_Expected(v.s))]

\* a stored field against the submitted one: an absent or empty optional
\* field is stored as NULL
C14_StoredAs(v, stored) ==
  IF stored = Null THEN v = Undefined \/ v = Str(<<>>)
  ELSE v.t = "str" /\ stored = C14_ExpectedOf[v]

C14_TextFields(row) ==
  {row.name, row.email, row.phone, row.company, row.plan,
   row.biggest_challenge}

C14_HasAngle(v) == \E k \in 1..Len(v.s) : v.s[k] = "<" \/ v.s[k] = ">"

\* the texts the bodies of the model are stored as that hold no '<' or '>',
\* found once
C14_CleanTexts ==
  {v \in UNION {C14_TextFields(SanitizedOf[b]) : b \in DOMAIN SanitizedOf} :
     ~C14_HasAngle(v)}

\* C14: the record of an accepted submission holds, in each text field, the
\* submitted value without its surrounding whitespace and without '<' and
\* '>'; no stored text field contains '<' or '>'.
C14_StoredSanitized ==
  /\ (last.ep = "post" /\ last.status = 201) =>
       \E row \in waitlist :
         /\ row.id = last.id
         /\ C14_StoredAs(last.body.name, row.name)
         /\ C14_StoredAs(last.body.email, row.email)
         /\ C14_StoredAs(last.body.phone, row.phone)
         /\ C14_StoredAs(last.body.company, row.company)
         /\ C14_StoredAs(last.body.plan, row.plan)
         /\ C14_StoredAs(last.body.biggest_challenge, row.biggest_challenge)
  /\ \A row \in waitlist : \A f \in C14_TextFields(row) :
       f \in C14_CleanTexts \/ ~C14_HasAngle(f)

\* name "<b>Al</b>" has been accepted and is stored as "bAl/b"
C14_Witness ==
  /\ last.ep = "post" /\ last.status = 201
  /\ last.body.name = Str(<<"<", "b", ">", "A", "l", "<", "/", "b", ">">>)
  /\ \E row \in waitlist :
       row.id = last.id /\ row.name = Str(<<"b", "A", "l", "/", "b">>)

C15_Count(field, v) == Cardinality({row \in waitlist : row[field] = v})

\* C15: an authorized stats() reports the number of records as total, one
\* byPlan entry with its number of records for every plan some record has
\* (none for records without a plan), and as topCompanies at most 5 companies
\* with their numbers of records, in non-increasing order, none of them with
\* fewer records than a company left out.
C15_StatsCorrect ==
  (last.ep = "admin/stats" /\ last.status = 200) =>
    LET top == last.topCompanies
        listed == {top[i].company : i \in 1..Len(top)}
    IN /\ last.count = Cardinality(waitlist)
       /\ \A row \in waitlist :
            row.plan # Null =>
              Cardinality({e \in last.byPlan : e.plan = row.plan}) = 1
       /\ \A e \in last.byPlan :
            /\ e.plan # Null
            /\ e.count > 0
            /\ e.count = C15_Count("plan", e.plan)
       /\ Len(top) <= 5
       /\ \A i \in 1..Len(top) :
            /\ top[i].count > 0
            /\ top[i].count = C15_Count("company", top[i].company)
            /\ \A k \in 1..Len(top) :
                 /\ i < k => top[i].count >= top[k].count
                 /\ top[i].company = top[k].company => i = k
            /\ \A row \in waitlist :
                 row.company \notin listed =>
                   C15_Count("company", row.company) <= top[i].count

\* stats() on 3 pro and 2 basic records and records without a plan, of more
\* than 5 companies one of which has fewer records than the others
C15_Witness ==
  /\ last.ep = "admin/stats" /\ last.status = 200
  /\ [plan |-> Str(<<"p", "r", "o">>), count |-> 3] \in last.byPlan
  /\ [plan |-> Str(<<"b", "a", "s", "i", "c">>), count |-> 2] \in last.byPlan
  /\ \E row \in waitlist : row.plan = Null
  /\ Cardinality({row.company : row \in waitlist}) > 5
  /\ \E r1 \in waitlist : \E r2 \in waitlist :
       C15_Count("company", r1.company) < C15_Count("company", r2.company)

\* the lines of a text: the line breaks in it, and its part before the first
C16_LineBreaks(text) == {i \in 1..Len(text) : text[i] = "\n"}
C16_FirstLine(text) ==
  IF C16_LineBreaks(text) = {} THEN text
  ELSE SubSeq(text, 1,
              (CHOOSE i \in C16_LineBreaks(text) :
                 \A k \in C16_LineBreaks(text) : i <= k) - 1)
C16_Header ==
  <<"I", "D", ",", "N", "a", "m", "e", ",", "E", "m", "a", "i", "l", ",",
    "P", "h", "o", "n", "e", ",", "C", "o", "m", "p", "a", "n", "y", ",",
    "P", "l", "a", "n", ",", "B", "i", "g", "g", "e", "s", "t", " ",
    "C", "h", "a", "l", "l", "e", "n", "g", "e", ",",
    "C", "r", "e", "a", "t", "e", "d", " ", "A", "t", ",",
    "I", "P", " ", "A", "d", "d", "r", "e", "s", "s">>

\* C16: the body of an authorized export starts with the header line, and
\* the lines after it are as many as the records of the store.
C16_CsvShape ==
  (last.ep = "admin/export" /\ last.status = 200 /\ last.key # NoKey) =>
    /\ C16_FirstLine(last.csv) = C16_Header
    /\ Cardinality(C16_LineBreaks(last.csv)) = Cardinality(waitlist)

\* C17: a 201 follows the insert of exactly one record, which has the id of
\* the response; a request answered 400, 409 or 500 has added no record
\* (every record of the store belongs to a 201 sent or to a request that has
\* inserted and not answered yet); and count returns the number of inserts
\* that succeeded.
C17_ResponseMatchesStore ==
  /\ last.ep = "post" => last.status \in {201, 400, 409, 500}
  /\ (last.ep = "post" /\ last.status = 201) =>
       /\ last.inserted = 1
       /\ Cardinality({row \in waitlist : row.id = last.id}) = 1
  /\ (last.ep = "post" /\ last.status # 201) => last.inserted = 0
  /\ Cardinality(waitlist) =
       Len(okIds) + Cardinality({s \in Slots : req[s].pc = "awaitMail"})
  /\ (last.ep = "count" /\ last.status = 200) =>
       /\ last.count = seq
       /\ last.count = Len(okIds)

\* count is 1 after two submissions that passed validation, one of which
\* was rejected
C17_Witness ==
  last.ep = "count" /\ last.status = 200 /\ last.count = 1 /\ nreq = 2

\* C18: a POST is answered 500 only when a store operation failed; with a
\* working store every request body, also one with a field that is no
\* string, is answered 201, 400 or 409.
C18_Only500OnStoreFailure ==
  (last.ep = "post" /\ last.err # "store") => last.status \in {201, 400, 409}

\* C19: sendMail has been called exactly once for every record of the store
\* and for nothing else, each call addressed to the email of its record, and
\* a request answered 400, 409 or 500 has called it zero times.
C19_NotifiedOncePerInsert ==
  /\ Len(outbox) = Cardinality(waitlist)
  /\ \A row \in waitlist :
       Cardinality({k \in 1..Len(outbox) : outbox[k].to = row.email}) = 1
  /\ \A k \in 1..Len(outbox) : \E row \in waitlist : row.email = outbox[k].to
  /\ (last.ep = "post" /\ last.status = 201) => last.mails = 1
  /\ (last.ep = "post" /\ last.status # 201) => last.mails = 0

\* the record with email "a@b.c" has been notified at that address, and a
\* later submission of "<a@b.c" has been rejected after its store query
C19_Witness ==
  /\ last.ep = "post" /\ last.status \in {409, 500} /\ last.dbOps > 0
  /\ Len(outbox) = 1
  /\ outbox[1].to = Str(<<"a", "@", "b", ".", "c">>)
  /\ \E row \in waitlist : row.email = outbox[1].to
  /\ last.body.email = Str(<<"<", "a", "@", "b", ".", "c">>)

====
